---- MODULE Spec2Model ----
(***************************************************************************)
(* Stick tables (src/stick_table.c): the sticky-session store of the       *)
(* proxy.  One table, its two indexes (t->keys, t->exps), the pool of      *)
(* stksess slots, the expiration task and the wrapping tick clock now_ms.  *)
(***************************************************************************)
EXTENDS Integers, Sequences, FiniteSets, TLC

\* ------------------------------------------------------------------ bounds
\* The dates of the program lie within half the tick space of now_ms: the
\* bounds keep MaxTtl + MaxLate + 1 below 2^(TickBits - 1).
TickBits == 3        \* width of a tick in the model (32 in the program)
MaxSize  == 2        \* largest configured t->size
MaxTtl   == 1        \* largest configured t->expire, in ms
MaxSid   == 2        \* server ids are 1..MaxSid
MaxByte  == 2        \* key bytes are 1..MaxByte
MaxStrLen == 1       \* the configured "len" of a string table
MaxLate  == 1        \* ticks the scheduler may run the task after its deadline
\* the eviction batch is t->size >> PurgeShift.  The program shifts by 8; the
\* model scales the shift with MaxSize, so that tables below 2^PurgeShift
\* entries (batch 0) and tables from 2^PurgeShift entries on (batch >= 1) occur
PurgeShift == 1
MaxBatch == 2        \* largest <to_batch> stktable_trash_oldest is tried with

TickMod  == 2 ^ TickBits
Ticks    == 0 .. (TickMod - 1)
Slots    == 1 .. MaxSize
NULL     == 0

\* ------------------------------------------------------- table types
STKTABLE_TYPE_INTEGER == "integer"
STKTABLE_TYPE_STRING  == "string"
\* stktable_types[].default_size of "integer"
IntKeySize == 4
\* key_size of a string table declared "string len <MaxStrLen>": atol() + 1
StrKeySize == MaxStrLen + 1

\* ------------------------------------------------------------ ticks
TICK_ETERNITY   == 0
TIMER_LOOK_BACK == TickMod \div 2

U(x) == x % TickMod
\* (int)(a - b) at the tick width
SDiff(a, b) == LET d == U(a - b) IN IF d >= TIMER_LOOK_BACK THEN d - TickMod ELSE d

tick_isset(expire) == expire # TICK_ETERNITY
MS_TO_TICKS(ms) == ms
tick_add(now, timeout) == LET n == U(now + timeout) IN IF n = 0 THEN 1 ELSE n
tick_is_lt(t1, t2) == SDiff(t1, t2) < 0
tick_is_le(t1, t2) == SDiff(t1, t2) <= 0
tick_is_expired(timer, now) == tick_isset(timer) /\ SDiff(timer, now) <= 0
tick_first(t1, t2) ==
    IF ~tick_isset(t1) THEN t2
    ELSE IF ~tick_isset(t2) THEN t1
    ELSE IF SDiff(t1, t2) <= 0 THEN t1 ELSE t2

\* ------------------------------------------------------------- state
VARIABLES
    t,         \* struct stktable: type, key_size, size, current, nopurge, expire, exp_next
    keys,      \* t->keys: the set of slots in the key index
    exps,      \* t->exps: the slots of the expiration index, in key order
    sess,      \* the pool's slots: struct stksess per slot
    alloc,     \* the slots the pool has handed out
    exp_task,  \* t->exp_task->expire (TICK_ETERNITY when the task is not queued)
    now_ms,    \* the clock
    ret        \* the last operation and what it returned

vars == <<t, keys, exps, sess, alloc, exp_task, now_ms, ret>>

\* a slot the pool holds: its bytes are not read before stksess_init and store
FreeSess == [key |-> <<>>, sid |-> 0, expire |-> 0, exps_key |-> 0]

Min(a, b) == IF a < b THEN a ELSE b

\* --------------------------------------------------- eb32 tree (t->exps)
\* position of the first node of <tree> whose key is >= x, or Len + 1
RECURSIVE GePos(_, _, _, _)
GePos(tree, ss, x, i) ==
    IF i > Len(tree) THEN i
    ELSE IF ss[tree[i]].exps_key >= x THEN i
    ELSE GePos(tree, ss, x, i + 1)

\* position of the first node of <tree> whose key is > x, or Len + 1
RECURSIVE GtPos(_, _, _, _)
GtPos(tree, ss, x, i) ==
    IF i > Len(tree) THEN i
    ELSE IF ss[tree[i]].exps_key > x THEN i
    ELSE GtPos(tree, ss, x, i + 1)

RECURSIVE PosOf(_, _, _)
PosOf(tree, s, i) ==
    IF i > Len(tree) THEN 0
    ELSE IF tree[i] = s THEN i
    ELSE PosOf(tree, s, i + 1)

eb32_first(tree) == IF Len(tree) = 0 THEN NULL ELSE tree[1]

eb32_lookup_ge(tree, ss, x) ==
    LET i == GePos(tree, ss, x, 1) IN IF i > Len(tree) THEN NULL ELSE tree[i]

eb32_next(tree, s) ==
    LET i == PosOf(tree, s, 1) IN
    IF i = 0 \/ i = Len(tree) THEN NULL ELSE tree[i + 1]

\* a node is inserted after the nodes of the same key
eb32_insert(tree, ss, s) ==
    LET i == GtPos(tree, ss, ss[s].exps_key, 1) IN
    SubSeq(tree, 1, i - 1) \o <<s>> \o SubSeq(tree, i, Len(tree))

eb32_delete(tree, s) ==
    LET i == PosOf(tree, s, 1) IN
    IF i = 0 THEN tree ELSE SubSeq(tree, 1, i - 1) \o SubSeq(tree, i + 1, Len(tree))

InExps(tree, s) == PosOf(tree, s, 1) # 0

\* ------------------------------------------------- ebmb tree (t->keys)
\* the C string held in a buffer: the bytes before the first zero
RECURSIVE CStr(_)
CStr(buf) ==
    IF Len(buf) = 0 \/ buf[1] = 0 THEN <<>> ELSE <<buf[1]>> \o CStr(Tail(buf))

\* ebmb_lookup: the node whose first <len> key bytes are those of <x>
ebmb_lookup(ks, ss, x, len) ==
    LET hit == {s \in ks : SubSeq(ss[s].key, 1, len) = SubSeq(x, 1, len)} IN
    IF hit = {} THEN NULL ELSE CHOOSE s \in hit : TRUE

\* ebst_lookup: the node whose key is the same C string as <x>
ebst_lookup(ks, ss, x) ==
    LET hit == {s \in ks : CStr(ss[s].key) = CStr(x)} IN
    IF hit = {} THEN NULL ELSE CHOOSE s \in hit : TRUE

\* ebst_lookup_len: the node whose key is the <len> bytes of <x>, then a zero
ebst_lookup_len(ks, ss, x, len) ==
    LET hit == {s \in ks : /\ Len(ss[s].key) > len
                           /\ SubSeq(ss[s].key, 1, len) = SubSeq(x, 1, len)
                           /\ ss[s].key[len + 1] = 0} IN
    IF hit = {} THEN NULL ELSE CHOOSE s \in hit : TRUE

\* ------------------------------------------------------------ inputs
\* the keys callers present: [key, key_len] of struct stktable_key
StrKeys == UNION {[1 .. n -> 1 .. MaxByte] : n \in 1 .. StrKeySize}
IntKeys == {<<1, 1, 1, b>> : b \in 1 .. MaxByte}
RawKeys(type) == IF type = STKTABLE_TYPE_STRING THEN StrKeys ELSE IntKeys

\* -------------------------------------------------------- stksess_key
stksess_key(tb, key) ==
    IF tb.type # STKTABLE_TYPE_STRING
    THEN SubSeq(key, 1, tb.key_size)
    ELSE SubSeq(key, 1, Min(tb.key_size - 1, Len(key))) \o <<0>>

\* ------------------------------------------------------- stksess_init
stksess_init(tb, ts, key) ==
    [ts EXCEPT !.sid = 0, !.key = stksess_key(tb, key)]

\* -------------------------------------------------------- stktable_lookup
stktable_lookup(tb, ks, ss, key) ==
    IF tb.type = STKTABLE_TYPE_STRING
    THEN ebst_lookup_len(ks, ss, key, Len(key))
    ELSE ebmb_lookup(ks, ss, key, tb.key_size)

\* the table state the scans work on
TableState == [t |-> t, keys |-> keys, exps |-> exps, sess |-> sess, alloc |-> alloc]

\* ------------------------------------------------------- stksess_free
\* stksess_free without "t->current--"
stksess_free_nodec(st, ts) ==
    [st EXCEPT !.alloc = @ \ {ts},
               !.sess[ts] = FreeSess]

stksess_free(st, ts) ==
    [st EXCEPT !.t.current = @ - 1,
               !.alloc = @ \ {ts},
               !.sess[ts] = FreeSess]

\* "session expired, trash it": the session leaves the key index and is freed
\* (the scans have detached it from the expiration index already)
TrashSession_leak(st, ts) == st

TrashSession(st, ts) == stksess_free([st EXCEPT !.keys = @ \ {ts}], ts)

\* ------------------------------------------------ stktable_trash_oldest
\* the loop of stktable_trash_oldest, <eb0> its cursor, <batched> its count.
\* TrashOldestStep is the body from one test of "batched < to_batch" on.
RECURSIVE TrashOldestLoop(_, _, _, _, _)
\* the loop body with "while (batched <= to_batch)"
TrashOldestStep_overrun(st, now, to_batch, eb0, batched) ==
    IF ~(batched <= to_batch) THEN [st |-> st, batched |-> batched]
    ELSE
      LET eb == IF eb0 = NULL THEN eb32_first(st.exps) ELSE eb0 IN
      IF eb = NULL THEN [st |-> st, batched |-> batched]
      ELSE
        LET ts  == eb
            nxt == eb32_next(st.exps, eb)
            st1 == [st EXCEPT !.exps = eb32_delete(@, ts)]
        IN
        IF st1.sess[ts].expire # st1.sess[ts].exps_key
        THEN
          IF ~tick_isset(st1.sess[ts].expire)
          THEN TrashOldestLoop(st1, now, to_batch, nxt, batched)
          ELSE
            LET ss2 == [st1.sess EXCEPT ![ts].exps_key = st1.sess[ts].expire]
                st2 == [st1 EXCEPT !.sess = ss2,
                                   !.exps = eb32_insert(st1.exps, ss2, ts)]
                eb2 == IF nxt = NULL \/ ss2[nxt].exps_key > ss2[ts].exps_key
                       THEN ts ELSE nxt
            IN TrashOldestLoop(st2, now, to_batch, eb2, batched)
        ELSE
          \* session expired, trash it
          TrashOldestLoop(TrashSession(st1, ts), now, to_batch, nxt, batched + 1)

TrashOldestStep(st, now, to_batch, eb0, batched) ==
    IF ~(batched < to_batch) THEN [st |-> st, batched |-> batched]
    ELSE
      LET eb == IF eb0 = NULL THEN eb32_first(st.exps) ELSE eb0 IN
      IF eb = NULL THEN [st |-> st, batched |-> batched]
      ELSE
        LET ts  == eb
            nxt == eb32_next(st.exps, eb)
            st1 == [st EXCEPT !.exps = eb32_delete(@, ts)]
        IN
        IF st1.sess[ts].expire # st1.sess[ts].exps_key
        THEN
          IF ~tick_isset(st1.sess[ts].expire)
          THEN TrashOldestLoop(st1, now, to_batch, nxt, batched)
          ELSE
            LET ss2 == [st1.sess EXCEPT ![ts].exps_key = st1.sess[ts].expire]
                st2 == [st1 EXCEPT !.sess = ss2,
                                   !.exps = eb32_insert(st1.exps, ss2, ts)]
                eb2 == IF nxt = NULL \/ ss2[nxt].exps_key > ss2[ts].exps_key
                       THEN ts ELSE nxt
            IN TrashOldestLoop(st2, now, to_batch, eb2, batched)
        ELSE
          \* session expired, trash it
          TrashOldestLoop(TrashSession(st1, ts), now, to_batch, nxt, batched + 1)

\* (the state is bound once per iteration, so that it is evaluated once)
TrashOldestLoop(st0, now, to_batch, eb0, batched0) ==
    CHOOSE r \in {TrashOldestStep(st, now, to_batch, eb, batched) :
                    st \in {st0}, eb \in {eb0}, batched \in {batched0}} : TRUE

stktable_trash_oldest(st, now, to_batch) ==
    TrashOldestLoop(st, now, to_batch,
                    eb32_lookup_ge(st.exps, st.sess, U(now - TIMER_LOOK_BACK)), 0)

\* -------------------------------------------------------- stksess_new
\* pool_alloc2: a slot of the pool, or NULL when <pool_ok> is false
pool_alloc2(st, pool_ok) ==
    LET free == Slots \ st.alloc IN
    IF ~pool_ok \/ free = {} THEN NULL
    ELSE CHOOSE s \in free : \A o \in free : s <= o

\* stksess_new without the "t->current == t->size" test
stksess_new_unchecked(st, now, key, pool_ok) ==
    LET ts == pool_alloc2(st, pool_ok) IN
    IF ts = NULL THEN [st |-> st, ts |-> NULL]
    ELSE [st |-> [st EXCEPT !.t.current = @ + 1,
                            !.alloc = @ \cup {ts},
                            !.sess[ts] = stksess_init(st.t, st.sess[ts], key)],
          ts |-> ts]

\* stksess_new without the "t->nopurge" test: a full table is always purged
stksess_new_purging(st, now, key, pool_ok) ==
    LET full   == st.t.current = st.t.size
        purged == stktable_trash_oldest(st, now, st.t.size \div (2 ^ PurgeShift))
        st1    == IF full THEN purged.st ELSE st
        ts     == pool_alloc2(st1, pool_ok)
    IN
    IF full /\ purged.batched = 0 THEN [st |-> st1, ts |-> NULL]
    ELSE IF ts = NULL THEN [st |-> st1, ts |-> NULL]
    ELSE [st |-> [st1 EXCEPT !.t.current = @ + 1,
                             !.alloc = @ \cup {ts},
                             !.sess[ts] = stksess_init(st1.t, st1.sess[ts], key)],
          ts |-> ts]

\* [st, ts]: the table afterwards and the session returned (NULL on failure)
stksess_new(st, now, key, pool_ok) ==
    LET full   == st.t.current = st.t.size
        purged == stktable_trash_oldest(st, now, st.t.size \div (2 ^ PurgeShift))
        st1    == IF full /\ ~st.t.nopurge THEN purged.st ELSE st
        ts     == pool_alloc2(st1, pool_ok)
    IN
    IF full /\ st.t.nopurge THEN [st |-> st, ts |-> NULL]
    ELSE IF full /\ purged.batched = 0 THEN [st |-> st1, ts |-> NULL]
    ELSE IF ts = NULL THEN [st |-> st1, ts |-> NULL]
    ELSE [st |-> [st1 EXCEPT !.t.current = @ + 1,
                             !.alloc = @ \cup {ts},
                             !.sess[ts] = stksess_init(st1.t, st1.sess[ts], key)],
          ts |-> ts]

\* ------------------------------------------------------ stktable_store
\* the lookup of stktable_store: the session of the table that has <ts>'s key
StoreLookup(st, ts) ==
    IF st.t.type = STKTABLE_TYPE_STRING
    THEN ebst_lookup(st.keys, st.sess, st.sess[ts].key)
    ELSE ebmb_lookup(st.keys, st.sess, st.sess[ts].key, st.t.key_size)

\* the insertion with "t->exp_next = ts->expire" in place of tick_first()
StoreInsert_rearm(st, task, now, ts, sid) ==
    LET exp  == tick_add(now, MS_TO_TICKS(st.t.expire))
        ss1  == [st.sess EXCEPT ![ts].sid = sid,
                                ![ts].expire = exp,
                                ![ts].exps_key = exp]
        st1  == [st EXCEPT !.sess = ss1,
                           !.keys = @ \cup {ts},
                           !.exps = eb32_insert(st.exps, ss1, ts)]
    IN
    IF st.t.expire # 0
    THEN [st |-> [st1 EXCEPT !.t.exp_next = exp], task |-> exp, val |-> 0]
    ELSE [st |-> st1, task |-> task, val |-> 0]

\* no existing session, insert ours
StoreInsert(st, task, now, ts, sid) ==
    LET exp  == tick_add(now, MS_TO_TICKS(st.t.expire))
        ss1  == [st.sess EXCEPT ![ts].sid = sid,
                                ![ts].expire = exp,
                                ![ts].exps_key = exp]
        next == tick_first(exp, st.t.exp_next)
        st1  == [st EXCEPT !.sess = ss1,
                           !.keys = @ \cup {ts},
                           !.exps = eb32_insert(st.exps, ss1, ts)]
    IN
    IF st.t.expire # 0
    THEN [st |-> [st1 EXCEPT !.t.exp_next = next], task |-> next, val |-> 0]
    ELSE [st |-> st1, task |-> task, val |-> 0]

\* the update without "ts->sid = sid"
StoreUpdate_keepsid(st, task, eb, sid) ==
    [st |-> st, task |-> task, val |-> 1]

\* another entry <eb> has the key: its server ID is updated
StoreUpdate(st, task, eb, sid) ==
    [st |-> [st EXCEPT !.sess[eb].sid = sid], task |-> task, val |-> 1]

\* stktable_store without its lookup: the session is always inserted
stktable_store_blind(st, task, now, ts, sid) ==
    StoreInsert(st, task, now, ts, sid)

\* [st, task, val]: the table, the task's expire and the value returned
stktable_store(st, task, now, ts, sid) ==
    LET eb == StoreLookup(st, ts) IN
    IF eb = NULL
    THEN StoreInsert(st, task, now, ts, sid)
    ELSE StoreUpdate(st, task, eb, sid)

\* ----------------------------------------------- stktable_trash_expired
\* the loop of stktable_trash_expired, <eb0> its cursor; the table afterwards.
\* TrashExpiredStep is the body from one test of the cursor on.
RECURSIVE TrashExpiredLoop(_, _, _)
\* the loop body without "t->exp_next = eb->key" at the first future key
TrashExpiredStep_norearm(st, now, eb0) ==
    LET eb == IF eb0 = NULL THEN eb32_first(st.exps) ELSE eb0 IN
    IF eb = NULL
    THEN \* We have found no task to expire in any tree
         [st EXCEPT !.t.exp_next = TICK_ETERNITY]
    ELSE IF tick_is_lt(now, st.sess[eb].exps_key)
    THEN \* timer not expired yet
         st
    ELSE
      LET ts  == eb
          nxt == eb32_next(st.exps, eb)
          st1 == [st EXCEPT !.exps = eb32_delete(@, ts)]
      IN
      IF ~tick_is_expired(st1.sess[ts].expire, now)
      THEN
        IF ~tick_isset(st1.sess[ts].expire)
        THEN TrashExpiredLoop(st1, now, nxt)
        ELSE
          LET ss2 == [st1.sess EXCEPT ![ts].exps_key = st1.sess[ts].expire]
              st2 == [st1 EXCEPT !.sess = ss2,
                                 !.exps = eb32_insert(st1.exps, ss2, ts)]
              eb2 == IF nxt = NULL \/ ss2[nxt].exps_key > ss2[ts].exps_key
                     THEN ts ELSE nxt
          IN TrashExpiredLoop(st2, now, eb2)
      ELSE
        \* session expired, trash it
        TrashExpiredLoop(TrashSession(st1, ts), now, nxt)

\* the loop body trashing a session whose expire is not set, as if expired
TrashExpiredStep_trashperm(st, now, eb0) ==
    LET eb == IF eb0 = NULL THEN eb32_first(st.exps) ELSE eb0 IN
    IF eb = NULL
    THEN \* We have found no task to expire in any tree
         [st EXCEPT !.t.exp_next = TICK_ETERNITY]
    ELSE IF tick_is_lt(now, st.sess[eb].exps_key)
    THEN \* timer not expired yet, revisit it later
         [st EXCEPT !.t.exp_next = st.sess[eb].exps_key]
    ELSE
      LET ts  == eb
          nxt == eb32_next(st.exps, eb)
          st1 == [st EXCEPT !.exps = eb32_delete(@, ts)]
      IN
      IF ~tick_is_expired(st1.sess[ts].expire, now)
      THEN
        IF ~tick_isset(st1.sess[ts].expire)
        THEN TrashExpiredLoop(TrashSession(st1, ts), now, nxt)
        ELSE
          LET ss2 == [st1.sess EXCEPT ![ts].exps_key = st1.sess[ts].expire]
              st2 == [st1 EXCEPT !.sess = ss2,
                                 !.exps = eb32_insert(st1.exps, ss2, ts)]
              eb2 == IF nxt = NULL \/ ss2[nxt].exps_key > ss2[ts].exps_key
                     THEN ts ELSE nxt
          IN TrashExpiredLoop(st2, now, eb2)
      ELSE
        \* session expired, trash it
        TrashExpiredLoop(TrashSession(st1, ts), now, nxt)

TrashExpiredStep(st, now, eb0) ==
    LET eb == IF eb0 = NULL THEN eb32_first(st.exps) ELSE eb0 IN
    IF eb = NULL
    THEN \* We have found no task to expire in any tree
         [st EXCEPT !.t.exp_next = TICK_ETERNITY]
    ELSE IF tick_is_lt(now, st.sess[eb].exps_key)
    THEN \* timer not expired yet, revisit it later
         [st EXCEPT !.t.exp_next = st.sess[eb].exps_key]
    ELSE
      LET ts  == eb
          nxt == eb32_next(st.exps, eb)
          st1 == [st EXCEPT !.exps = eb32_delete(@, ts)]
      IN
      IF ~tick_is_expired(st1.sess[ts].expire, now)
      THEN
        IF ~tick_isset(st1.sess[ts].expire)
        THEN TrashExpiredLoop(st1, now, nxt)
        ELSE
          LET ss2 == [st1.sess EXCEPT ![ts].exps_key = st1.sess[ts].expire]
              st2 == [st1 EXCEPT !.sess = ss2,
                                 !.exps = eb32_insert(st1.exps, ss2, ts)]
              eb2 == IF nxt = NULL \/ ss2[nxt].exps_key > ss2[ts].exps_key
                     THEN ts ELSE nxt
          IN TrashExpiredLoop(st2, now, eb2)
      ELSE
        \* session expired, trash it
        TrashExpiredLoop(TrashSession(st1, ts), now, nxt)

\* (the state is bound once per iteration, so that it is evaluated once)
TrashExpiredLoop(st0, now, eb0) ==
    CHOOSE r \in {TrashExpiredStep(st, now, eb) : st \in {st0}, eb \in {eb0}} : TRUE

\* stktable_trash_expired scanning from the first node of the tree, without
\* the look-back anchor "eb32_lookup_ge(&t->exps, now_ms - TIMER_LOOK_BACK)"
stktable_trash_expired_fromfirst(st, now) ==
    TrashExpiredLoop(st, now, NULL)

stktable_trash_expired(st, now) ==
    TrashExpiredLoop(st, now,
                     eb32_lookup_ge(st.exps, st.sess, U(now - TIMER_LOOK_BACK)))

\* ------------------------------------------------------- stktable_init
\* the table after stktable_init on a configured <type, size, nopurge, expire>
stktable_init(type, size, nopurge, expire) ==
    [type     |-> type,
     key_size |-> IF type = STKTABLE_TYPE_STRING THEN StrKeySize ELSE IntKeySize,
     size     |-> size,
     current  |-> 0,
     nopurge  |-> nopurge,
     expire   |-> expire,
     exp_next |-> TICK_ETERNITY]

\* the last operation: its name, the value returned, its session and arguments
Ret(op, val, ts, arg, key) ==
    [op |-> op, val |-> val, ts |-> ts, arg |-> arg, key |-> key]

Init ==
    /\ \E type \in {STKTABLE_TYPE_INTEGER, STKTABLE_TYPE_STRING},
          size \in 0 .. MaxSize, nopurge \in BOOLEAN, expire \in 0 .. MaxTtl :
          t = stktable_init(type, size, nopurge, expire)
    /\ keys = {}
    /\ exps = <<>>
    /\ sess = [s \in Slots |-> FreeSess]
    /\ alloc = {}
    /\ exp_task = TICK_ETERNITY
    /\ now_ms \in Ticks
    /\ ret = Ret("init", 1, NULL, 0, <<>>)

SetTable(st) ==
    /\ t' = st.t
    /\ keys' = st.keys
    /\ exps' = st.exps
    /\ sess' = st.sess
    /\ alloc' = st.alloc

\* ------------------------------------------------------------ actions
\* a caller allocates a session for <key>
StksessNew(key, pool_ok) ==
    /\ \E r \in {stksess_new(TableState, now_ms, key, pool_ok)} :
         /\ SetTable(r.st)
         /\ ret' = Ret("new", IF r.ts = NULL THEN 0 ELSE 1, r.ts,
                      IF pool_ok THEN 1 ELSE 0, stksess_key(t, key))
    /\ UNCHANGED <<exp_task, now_ms>>

\* a caller stores the session it holds
StktableStore(ts, sid) ==
    /\ ts \in alloc \ keys
    /\ \E r \in {stktable_store(TableState, exp_task, now_ms, ts, sid)} :
         /\ SetTable(r.st)
         /\ exp_task' = r.task
         /\ ret' = Ret("store", r.val, ts, sid, <<>>)
    /\ UNCHANGED now_ms

\* a caller releases the session it holds
StksessFree(ts) ==
    /\ ts \in alloc \ keys
    /\ SetTable(stksess_free(TableState, ts))
    /\ ret' = Ret("free", 0, ts, 0, <<>>)
    /\ UNCHANGED <<exp_task, now_ms>>

\* a caller looks <key> up
StktableLookup(key) ==
    /\ ret' = Ret("lookup", stktable_lookup(t, keys, sess, key), NULL, 0, <<>>)
    /\ UNCHANGED <<t, keys, exps, sess, alloc, exp_task, now_ms>>

\* the scheduler wakes a task whose expire date has passed
TaskExpired == t.expire # 0 /\ tick_is_expired(exp_task, now_ms)

\* process_table_expire, run by the scheduler
ProcessTableExpire ==
    /\ TaskExpired
    /\ \E st \in {stktable_trash_expired(TableState, now_ms)} :
         /\ SetTable(st)
         /\ exp_task' = st.t.exp_next
         /\ ret' = Ret("expire", st.t.exp_next, NULL, t.current - st.t.current, <<>>)
    /\ UNCHANGED now_ms

\* the clock advances; the scheduler runs a due task within MaxLate ticks
Tick ==
    /\ TaskExpired => SDiff(now_ms, exp_task) < MaxLate
    /\ now_ms' = U(now_ms + 1)
    /\ ret' = Ret("tick", 0, NULL, 0, <<>>)
    /\ UNCHANGED <<t, keys, exps, sess, alloc, exp_task>>

\* a caller extends the expiration date of a session of the expiration index
Touch(ts) ==
    /\ ts \in keys
    /\ InExps(exps, ts)
    /\ t.expire # 0
    /\ sess' = [sess EXCEPT ![ts].expire = tick_add(now_ms, MS_TO_TICKS(t.expire))]
    /\ ret' = Ret("touch", 0, ts, 0, <<>>)
    /\ UNCHANGED <<t, keys, exps, alloc, exp_task, now_ms>>

\* a caller makes a stored session permanent
Persist(ts) ==
    /\ ts \in keys
    /\ tick_isset(sess[ts].expire)
    /\ sess' = [sess EXCEPT ![ts].expire = TICK_ETERNITY]
    /\ ret' = Ret("persist", 0, ts, 0, <<>>)
    /\ UNCHANGED <<t, keys, exps, alloc, exp_task, now_ms>>

\* stktable_trash_oldest on its own, for a batch of <to_batch> sessions
TrashOldest(to_batch) ==
    /\ \E r \in {stktable_trash_oldest(TableState, now_ms, to_batch)} :
         /\ SetTable(r.st)
         /\ ret' = Ret("trash", r.batched, NULL, to_batch, <<>>)
    /\ UNCHANGED <<exp_task, now_ms>>

Next ==
    \/ \E key \in RawKeys(t.type), pool_ok \in BOOLEAN : StksessNew(key, pool_ok)
    \/ \E ts \in Slots, sid \in 1 .. MaxSid : StktableStore(ts, sid)
    \/ \E ts \in Slots : StksessFree(ts)
    \/ \E key \in RawKeys(t.type) : StktableLookup(key)
    \/ ProcessTableExpire
    \/ Tick

Spec == Init /\ [][Next]_vars

\* The program with callers that extend or lift the expiration date of stored
\* sessions, on a table that expires its sessions.  The callers get a slot
\* whenever the table has room and store server 1.
InitExt == Init /\ t.expire # 0

NextExt ==
    \/ \E key \in RawKeys(t.type) : StksessNew(key, TRUE)
    \/ \E ts \in Slots : StktableStore(ts, 1)
    \/ ProcessTableExpire
    \/ Tick
    \/ \E ts \in Slots : Touch(ts)
    \/ \E ts \in Slots : Persist(ts)

SpecExt == InitExt /\ [][NextExt]_vars

\* The program of SpecExt on a table of MaxSize sessions that purges, and
\* stktable_trash_oldest tried with every batch.
NextEvict ==
    \/ NextExt
    \/ \E to_batch \in 0 .. MaxBatch : TrashOldest(to_batch)

InitEvict == InitExt /\ ~t.nopurge /\ t.size = MaxSize

SpecEvict == InitEvict /\ [][NextEvict]_vars

\* The program under a scheduler that runs the expiration task once it is due.
InitLive == Init /\ t.expire # 0

LiveSpec == InitLive /\ [][Next]_vars /\ WF_vars(ProcessTableExpire)

\* ===================================================================
\* Properties
\* ===================================================================
\* the sessions of the key index <ks> whose key is <k>
Holders(ks, ss, k) == {s \in ks : ss[s].key = k}
\* the sessions a caller holds: allocated, not stored
Held == alloc \ keys
\* the earlier of two dates in tick order, the never sentinel being the latest
Earlier(a, b) ==
    IF a = TICK_ETERNITY THEN b
    ELSE IF b = TICK_ETERNITY THEN a
    ELSE IF SDiff(a, b) <= 0 THEN a ELSE b

\* C1 -- Key uniqueness: the key index never holds two sessions with the same
\* normalized key, whatever sequence of stksess_new, stktable_store, eviction
\* and sweep ran.
KeyUnique == \A a, b \in keys : a # b => sess[a].key # sess[b].key

\* a store found its key in the index, and the index holds one session of it
KeyUniqueWitness ==
    /\ ret.op = "store" /\ ret.val = 1
    /\ Cardinality(Holders(keys, sess, sess[ret.ts].key)) = 1

\* C2 -- Capacity invariant: 0 <= t->current <= t->size in every state, and
\* on a table of size 0 stksess_new returns no session and nothing is stored.
CapacityInv ==
    /\ 0 <= t.current
    /\ t.current <= t.size
    /\ t.size = 0 => /\ alloc = {}
                     /\ keys = {}
                     /\ (ret.op = "new" => ret.ts = NULL)

\* a table with room for sessions is full and stksess_new has refused a session
CapacityWitness ==
    /\ t.size > 0 /\ t.current = t.size
    /\ ret.op = "new" /\ ret.ts = NULL /\ ret.arg = 1

\* C3 (as claimed) -- Occupancy is the number of sessions in the key index, in
\* every state reached after an operation completes.
OccupancyIsKeyCount == t.current = Cardinality(keys)

\* C3 (amended) -- Occupancy is the number of sessions allocated: those in the
\* key index plus those stksess_new returned that are neither stored nor
\* freed; a store whose key is already present leaves occupancy unchanged.
OccupancyIsAllocCount ==
    /\ [](/\ keys \subseteq alloc
          /\ t.current = Cardinality(keys) + Cardinality(Held))
    /\ [][(ret'.op = "store" /\ Holders(keys, sess, sess[ret'.ts].key) # {})
            => t'.current = t.current]_vars

\* a store has found its key present while the caller's session is counted
OccupancyWitness ==
    /\ ret.op = "store" /\ ret.val = 1
    /\ ret.ts \in Held
    /\ t.current = Cardinality(keys) + 1

\* C4 -- Duplicate store is index-neutral: a stktable_store whose key is in
\* the key index returns non-zero, sets the server ID of the session that is
\* there, and leaves both indexes, that session's expire and index key, every
\* other session, exp_next and the task's expire as they were; the caller's
\* session is in neither index.
DuplicateStoreNeutral ==
    [][(ret'.op = "store" /\ Holders(keys, sess, sess[ret'.ts].key) # {})
        => LET ts == ret'.ts
               in == Holders(keys, sess, sess[ts].key)
           IN /\ ret'.val # 0
              /\ \A eb \in in : sess' = [sess EXCEPT ![eb].sid = ret'.arg]
              /\ keys' = keys /\ exps' = exps
              /\ t' = t /\ exp_task' = exp_task /\ alloc' = alloc
              /\ ts \notin keys' /\ ~InExps(exps', ts)]_vars

\* a duplicate store has changed the server ID of the stored session
DuplicateStoreWitness ==
    /\ ret.op = "store" /\ ret.val = 1
    /\ \E eb \in keys : /\ sess[eb].key = sess[ret.ts].key
                        /\ sess[eb].sid = ret.arg
                        /\ sess[ret.ts].sid # ret.arg

\* C5 -- Insert postcondition: on a table with a non-zero expire, a
\* stktable_store whose key is not in the key index returns zero; the session
\* is then in both indexes with the server ID given, expire = now + t->expire
\* in ticks and the index key equal to it; exp_next is the earlier of its
\* previous value and that date, and the task's expire equals exp_next.
InsertPost ==
    [][(/\ ret'.op = "store"
        /\ t.expire # 0
        /\ Holders(keys, sess, sess[ret'.ts].key) = {})
        => LET ts == ret'.ts
               at == tick_add(now_ms, MS_TO_TICKS(t.expire))
           IN /\ ret'.val = 0
              /\ keys' = keys \cup {ts}
              /\ sess'[ts].key = sess[ts].key
              /\ sess'[ts].sid = ret'.arg
              /\ sess'[ts].expire = at
              /\ sess'[ts].exps_key = at
              /\ InExps(exps', ts)
              /\ t'.exp_next = Earlier(t.exp_next, at)
              /\ exp_task' = t'.exp_next]_vars

\* an insertion has left exp_next at an earlier date than the new session's
InsertWitness ==
    /\ ret.op = "store" /\ ret.val = 0 /\ t.expire # 0
    /\ ret.ts \in keys /\ InExps(exps, ret.ts)
    /\ Cardinality(keys) = 2
    /\ t.exp_next # sess[ret.ts].expire
    /\ exp_task = t.exp_next

\* C6 (as claimed) -- Eviction under pressure: on a full table of size >= 1
\* that purges, stksess_new for a novel key succeeds (the pool not failing)
\* whenever the expiration index holds a session with a finite expire.
EvictionUnderPressure ==
    [][(/\ ret'.op = "new" /\ ret'.arg = 1
        /\ t.size >= 1 /\ ~t.nopurge /\ t.current = t.size
        /\ Holders(keys, sess, ret'.key) = {}
        /\ \E i \in 1 .. Len(exps) : tick_isset(sess[exps[i]].expire))
        => ret'.ts # NULL]_vars

\* C7 -- Table full with nopurge: on a full table with nopurge set,
\* stksess_new returns no session and leaves the key index, the expiration
\* index, occupancy, the sessions and exp_next unchanged.
NoPurgeFull ==
    [][(ret'.op = "new" /\ t.nopurge /\ t.current = t.size)
        => /\ ret'.ts = NULL /\ ret'.val = 0
           /\ UNCHANGED <<t, keys, exps, sess, alloc, exp_task>>]_vars

\* stksess_new has failed on a full nopurge table that holds an evictable session
NoPurgeWitness ==
    /\ ret.op = "new" /\ ret.ts = NULL /\ ret.arg = 1
    /\ t.nopurge /\ t.size > 0 /\ t.current = t.size
    /\ t.size \div (2 ^ PurgeShift) > 0
    /\ \E i \in 1 .. Len(exps) : sess[exps[i]].expire = sess[exps[i]].exps_key


\* the stored sessions whose expire has elapsed
Elapsed == {s \in keys : tick_is_expired(sess[s].expire, now_ms)}

\* C8 -- Sweep liveness: on a table with a non-zero expire whose sessions are
\* never extended, under a scheduler that runs the expiration task once it is
\* due, a session of the indexes whose expire has elapsed is eventually in
\* neither index and returned by no lookup; every sweep decrements occupancy
\* by exactly the number of sessions it removes from the key index.
SweepLive ==
    /\ \A s \in Slots :
         (s \in Elapsed /\ InExps(exps, s))
         ~> (/\ s \notin keys
             /\ ~InExps(exps, s)
             /\ \A K \in RawKeys(t.type) : stktable_lookup(t, keys, sess, K) # s)
    /\ [][ret'.op = "expire"
           => /\ keys' \subseteq keys
              /\ t'.current = t.current - Cardinality(keys \ keys')
              /\ \A s \in keys \ keys' : s \notin alloc' /\ ~InExps(exps', s)]_vars

\* a sweep has trashed sessions and has left no elapsed one behind
SweepLiveWitness ==
    /\ ret.op = "expire" /\ ret.arg >= 1
    /\ t.current = Cardinality(alloc)
    /\ Elapsed = {}

\* C9 (as claimed) -- Re-stamp correctness: the sweep removes from the key
\* index no session whose expire is later than now; and a session of the
\* expiration index whose expire is later than now while its index key has
\* elapsed is, when the sweep returns, in the expiration index with its index
\* key equal to its expire, and still found by its key.
RestampCorrect ==
    [][ret'.op = "expire"
        => \A s \in keys :
             (tick_isset(sess[s].expire) /\ tick_is_lt(now_ms, sess[s].expire))
             => /\ s \in keys'
                /\ sess'[s].key = sess[s].key
                /\ sess'[s].expire = sess[s].expire
                /\ (InExps(exps, s) /\ tick_is_le(sess[s].exps_key, now_ms))
                     => /\ InExps(exps', s)
                        /\ sess'[s].exps_key = sess'[s].expire]_vars

\* C10 (as claimed) -- Sweep drains everything expired: when a sweep returns,
\* no session whose expire has elapsed (expire <= now in tick order) is left
\* in the key index or in the expiration index.
SweepDrains ==
    ret.op = "expire"
    => /\ \A s \in keys : ~tick_is_expired(sess[s].expire, now_ms)
       /\ \A i \in 1 .. Len(exps) : ~tick_is_expired(sess[exps[i]].expire, now_ms)

\* C11 -- Wraparound safety: with sessions that were never extended (index key
\* = expire), their keys within half the tick space of now and on either side
\* of the wrap of the clock, one sweep removes exactly the sessions whose
\* expire is <= now in tick order, from both indexes, and keeps exactly the
\* sessions whose expire is later than now, in both indexes and unchanged.
WrapSafe ==
    [][(/\ ret'.op = "expire"
        /\ \A s \in keys : /\ InExps(exps, s)
                            /\ sess[s].exps_key = sess[s].expire
                            /\ SDiff(sess[s].expire, now_ms) > -TIMER_LOOK_BACK)
        => \A s \in keys :
             IF tick_is_le(sess[s].expire, now_ms)
             THEN s \notin keys' /\ ~InExps(exps', s)
             ELSE s \in keys' /\ InExps(exps', s) /\ sess'[s] = sess[s]]_vars

\* a sweep run in the last ticks before the wrap has removed a session and
\* has kept one whose key lies past the wrap
WrapSafeWitness ==
    /\ ret.op = "expire" /\ ret.arg >= 1
    /\ now_ms >= TIMER_LOOK_BACK
    /\ \E s \in keys : /\ InExps(exps, s)
                        /\ sess[s].exps_key < TIMER_LOOK_BACK
                        /\ sess[s].exps_key = sess[s].expire
                        /\ tick_is_lt(now_ms, sess[s].expire)

\* C12 -- Sweep result: when a sweep returns, exp_next is what it returned and
\* what the task's expire is set to; it is the never sentinel if and only if
\* the expiration index is empty, and otherwise it is the index key of a
\* session of the expiration index, later than now.
SweepResult ==
    ret.op = "expire"
    => /\ ret.val = t.exp_next
       /\ exp_task = t.exp_next
       /\ (t.exp_next = TICK_ETERNITY <=> exps = <<>>)
       /\ exps # <<>>
            => /\ \E i \in 1 .. Len(exps) : sess[exps[i]].exps_key = t.exp_next
               /\ tick_is_lt(now_ms, t.exp_next)

\* a sweep has trashed a session and has stopped at a session due later
SweepResultWitness ==
    /\ ret.op = "expire" /\ ret.arg >= 1
    /\ exps # <<>>
    /\ tick_isset(t.exp_next)
    /\ sess[exps[1]].exps_key = t.exp_next \/ sess[exps[Len(exps)]].exps_key = t.exp_next

\* the first key_size - 1 bytes of a string key
KeyPrefix(tb, K) == SubSeq(K, 1, Min(tb.key_size - 1, Len(K)))

\* C13 (as claimed) -- Store/lookup round trip with truncation: for every key
\* kind and every key K a caller presents, while the session built from K
\* (its key is stksess_key of K) is in the key index, stktable_lookup of K
\* returns it; and on a string table a key longer than key_size - 1 bytes
\* gives the same session key and the same lookup result as its first
\* key_size - 1 bytes.
RoundTrip ==
    \A K \in RawKeys(t.type) :
       /\ \A s \in keys : sess[s].key = stksess_key(t, K)
                             => stktable_lookup(t, keys, sess, K) = s
       /\ t.type = STKTABLE_TYPE_STRING
            => /\ stksess_key(t, K) = stksess_key(t, KeyPrefix(t, K))
               /\ stktable_lookup(t, keys, sess, K)
                    = stktable_lookup(t, keys, sess, KeyPrefix(t, K))

\* C14 (as claimed) -- Index membership: in every state reached after an
\* operation completes, every session of the expiration index is in the key
\* index, and a session of the key index is in the expiration index if and
\* only if the table's expire is not zero; on a table whose expire is zero
\* the expiration index stays empty, no stored session has an expiration
\* date, and the expiration task is neither queued nor run.
IndexMembership ==
    /\ \A i \in 1 .. Len(exps) : exps[i] \in keys
    /\ \A s \in keys : InExps(exps, s) <=> t.expire # 0
    /\ t.expire = 0 => /\ exps = <<>>
                       /\ \A s \in keys : ~tick_isset(sess[s].expire)
                       /\ exp_task = TICK_ETERNITY
                       /\ ret.op # "expire"

AllocFailureClean ==
    [][(ret'.op = "new" /\ ret'.arg = 0)
        => /\ ret'.ts = NULL /\ ret'.val = 0
           /\ t'.current <= t.current
           /\ keys' = keys
           /\ exps' = exps]_vars

\* C17 (as claimed) -- Oldest-first eviction: whenever stktable_trash_oldest
\* releases a session, no session left in the expiration index has a finite
\* expire strictly earlier than the victim's (in tick order, the dates lying
\* within half the tick space of now); also when the scan re-stamps extended
\* sessions and when index keys lie on both sides of the wrap of the clock.
OldestFirst ==
    [][ret'.op = "new"
        => \A v \in keys \ keys' :
             \A i \in 1 .. Len(exps') :
                tick_isset(sess'[exps'[i]].expire)
                => ~(SDiff(sess'[exps'[i]].expire, now_ms) < SDiff(sess[v].expire, now_ms))]_vars

\* C18 -- Eviction terminates and is batch-bounded: from every table state and
\* for every batch, stktable_trash_oldest returns; the number of sessions it
\* has released (each out of the key index, occupancy decremented by that
\* number) is at most the batch, and is below the batch only if the
\* expiration index is empty when it returns; a stksess_new releases at most
\* t->size >> PurgeShift sessions.
BatchBounded ==
    [][/\ ret'.op = "trash"
           => /\ ret'.val <= ret'.arg
              /\ ret'.val = Cardinality(keys \ keys')
              /\ keys' \subseteq keys
              /\ t'.current = t.current - ret'.val
              /\ ret'.val < ret'.arg => exps' = <<>>
       /\ ret'.op = "new"
           => Cardinality(keys \ keys') <= t.size \div (2 ^ PurgeShift)]_vars

\* an eviction asked for more than one session has released one and has
\* returned on an empty expiration index, a stored session being left
BatchBoundedWitness ==
    /\ ret.op = "trash" /\ ret.arg >= 2 /\ ret.val = 1
    /\ exps = <<>>
    /\ keys # {}

\* the sessions of the key index whose expire is the never sentinel
Permanent == {s \in keys : ~tick_isset(sess[s].expire)}

\* C19 -- Never-expiring sessions survive scans: a stored session whose expire
\* is the never sentinel is removed from the key index by no eviction and no
\* sweep, now or later: it keeps its slot and its key and is found by lookup;
\* a scan that visits it only takes it out of the expiration index, where it
\* does not return; occupancy decreases by the number of sessions released,
\* which is the number an eviction reports.
NeverExpiring ==
    [][/\ \A s \in Permanent :
            /\ s \in keys' /\ s \in alloc'
            /\ sess'[s].key = sess[s].key
            /\ \E K \in RawKeys(t.type) : stktable_lookup(t', keys', sess', K) = s
            /\ ~InExps(exps, s) => (~InExps(exps', s) /\ s \in Permanent')
            /\ ret'.op \in {"expire", "trash", "new"} => s \in Permanent'
       /\ ret'.op \in {"expire", "trash"}
            => t'.current = t.current - Cardinality(keys \ keys')
       /\ ret'.op = "trash" => ret'.val = Cardinality(keys \ keys')
       /\ (ret'.op = "trash" /\ ret'.val < ret'.arg)
            => \A s \in Permanent : ~InExps(exps', s)
       /\ (ret'.op = "expire" /\ ret'.val = TICK_ETERNITY)
            => \A s \in Permanent : ~InExps(exps', s)]_vars

\* a sweep has visited a permanent session: it has released nothing, and the
\* session is out of the expiration index, stored and counted
NeverExpiringWitness ==
    /\ ret.op = "expire" /\ ret.arg = 0
    /\ \E s \in Permanent : ~InExps(exps, s)
    /\ exps = <<>>
    /\ t.current = Cardinality(keys)

\* C20 (as claimed) -- No missed wake-up: on a table with a non-zero expire,
\* in every state reached after a store, an eviction or a sweep completes,
\* with sessions extended in between and the clock anywhere in its range,
\* exp_next is set while the expiration index is not empty, and no session of
\* the expiration index has an index key earlier in tick order than exp_next.
NoMissedWakeup ==
    (t.expire # 0 /\ ret.op \in {"store", "new", "expire"} /\ exps # <<>>)
    => /\ tick_isset(t.exp_next)
       /\ \A i \in 1 .. Len(exps) : ~tick_is_lt(sess[exps[i]].exps_key, t.exp_next)

====
